---- MODULE Spec2Model ----
(***************************************************************************)
(* Retrieval core of FintechCheckAI (backend/services/rag_service.py):     *)
(* tokenizer, cosine similarity, keyword / semantic / hybrid retrievers    *)
(* and the orchestrator retrieve_chunks_from_tower.                        *)
(*                                                                         *)
(* Numbers.  Scores are Python floats; here they are exact rationals       *)
(* <<n, d>> in lowest terms with d > 0.  IEEE division is correctly        *)
(* rounded and monotone, so on the small integers used below equal         *)
(* rationals are equal floats and the order of distinct ones is kept.      *)
(* Embedding vectors are drawn from integer vectors whose norms (and the   *)
(* norms of their prefixes) are integers, so float32 dot products and      *)
(* norms are exact.                                                        *)
(*                                                                         *)
(* Text.  A string is a tuple of one-character strings.                    *)
(*                                                                         *)
(* Specifications.  Spec: one call of retrieve_chunks_from_tower against   *)
(* a store and an embedding provider that may fail.  SpecConcurrent: two   *)
(* such calls served by one process, their steps interleaved.  SpecSimple  *)
(* and SpecSemantic: one call of retrieve_chunks_simple and of             *)
(* retrieve_chunks_semantic on arguments drawn from bounded sets.          *)
(* SpecHybrid: one call of retrieve_chunks_hybrid and the same call made   *)
(* again, in the same process or in another one.  SpecCosine: one call of  *)
(* _cosine_similarity on arguments of any shape.  SpecScaled: one call of  *)
(* retrieve_chunks_hybrid and a second one with both weights multiplied by *)
(* a factor; here the arithmetic of the function rounds as floating point  *)
(* does, with fewer bits.  SpecVerify, SpecRetrieve and SpecWorkflow: the  *)
(* callers of the orchestrator, rag_service.verify_claims,                 *)
(* agents/chunk_retriever.retrieve_chunks and the handler of POST /verify  *)
(* (api/routes/verification.py).                                           *)
(***************************************************************************)
EXTENDS Integers, Sequences, FiniteSets, TLC

VARIABLES
    pc,                   \* position of the call under study
    query,                \* argument: query text
    chunks,               \* argument: chunk list handed to a retriever
    top_k,                \* argument: top_k (a Python int, may be negative)
    query_embedding,      \* argument / local: the query embedding
    results,              \* value returned by the call
    raised,               \* TRUE iff the call ended by raising to its caller
    document_id,          \* orchestrator argument
    method_arg,           \* orchestrator argument search_method as passed
    weights,              \* arguments semantic_weight and keyword_weight of
                          \* retrieve_chunks_hybrid
    vectors,              \* arguments vec1 and vec2 of _cosine_similarity
    TOWER_RAG_AVAILABLE,  \* module flag, rag_service.py:26-32
    OPENAI_AVAILABLE,     \* module flag, rag_service.py:37-41
    OPENAI_API_KEY,       \* TRUE iff the environment variable is set
    config,               \* backend.core.config.config
    table,                \* rows of the Tower "chunks" table
    store_fault,          \* what the chunk store did during the call
    provider,             \* what the embedding provider did during the call
    embed_calls,          \* number of calls of _get_query_embedding
    hashseed,             \* the process's string-hash seed (set iteration order)
    catalog,              \* the tables that exist in the Tower catalog
    other                 \* a second frame: the same call repeated, another
                          \* request served at the same time, or the caller
                          \* of retrieve_chunks_from_tower

\* the arguments of the call
call == <<query, top_k, document_id, method_arg, weights, vectors>>
\* what the process and its collaborators hold
env == <<TOWER_RAG_AVAILABLE, OPENAI_AVAILABLE, OPENAI_API_KEY, config, table,
         hashseed>>

vars == <<pc, chunks, query_embedding, results, raised, store_fault, provider,
          embed_calls, call, env, catalog, other>>

----------------------------------------------------------------------------
(* Bounds of the model *)

MaxChunks == 3
MaxTopK == 3
MaxStore == 3

----------------------------------------------------------------------------
(* Rational arithmetic standing for Python floats *)

Abs(x) == IF x < 0 THEN -x ELSE x
Min(a, b) == IF a <= b THEN a ELSE b
Max(a, b) == IF a >= b THEN a ELSE b

RECURSIVE GCD(_, _)
GCD(a, b) == IF b = 0 THEN a ELSE GCD(b, a % b)

Rat(n, d) ==
    LET s == IF d < 0 THEN -1 ELSE 1
        g == GCD(Abs(n), Abs(d))
    IN  <<(s * n) \div g, (s * d) \div g>>

Zero == <<0, 1>>
One == <<1, 1>>
RLess(a, b) == a[1] * b[2] < b[1] * a[2]
RLeq(a, b) == a[1] * b[2] <= b[1] * a[2]
RAdd(a, b) == Rat(a[1] * b[2] + b[1] * a[2], a[2] * b[2])
RMul(a, b) == Rat(a[1] * b[1], a[2] * b[2])
RDiv(a, b) == Rat(a[1] * b[2], a[2] * b[1])

\* Floating point.  A Python float has 53 significant bits and every
\* operation rounds its exact result to the nearest float, ties to even.
\* Fl does so with Precision significant bits; Exact is the arithmetic without
\* rounding, which agrees with the floats on the numbers of every
\* specification but SpecScaled.
Precision == 6
Exponents == -4..(2 * Precision + 4)

RECURSIVE Pow2(_)
Pow2(k) == IF k = 0 THEN 1 ELSE 2 * Pow2(k - 1)

Exact(r) == r

Fl(r) ==
    IF r[1] = 0 THEN Zero
    ELSE LET n == Abs(r[1])
             d == r[2]
             sign == IF r[1] < 0 THEN -1 ELSE 1
             \* |r| * 2^e as a fraction Num(e) / Den(e)
             Num(e) == IF e >= 0 THEN n * (Pow2(e) \div GCD(Pow2(e), d)) ELSE n
             Den(e) == IF e >= 0 THEN d \div GCD(Pow2(e), d) ELSE d * Pow2(-e)
             Significand(v) == Pow2(Precision - 1) <= v /\ v < Pow2(Precision)
             \* round to nearest, ties to even
             Nearest(q, rem, den) ==
                 IF 2 * rem > den \/ (2 * rem = den /\ q % 2 = 1)
                 THEN q + 1 ELSE q
             Scaled(e, m) == IF e >= 0 THEN Rat(sign * m, Pow2(e))
                             ELSE Rat(sign * m * Pow2(-e), 1)
             Quotient(e, num, den) ==
                 Scaled(e, Nearest(num \div den, num % den, den))
             At(e) == Quotient(e, Num(e), Den(e))
             \* the exponent that brings |r| into [2^(Precision-1), 2^Precision)
         IN  At(CHOOSE x \in Exponents : Significand(Num(x) \div Den(x)))

\* the arithmetic of a call: Python floats, or the exact rationals that stand
\* for them where no operation rounds
Round(rounding, r) == IF rounding = "float" THEN Fl(r) ELSE Exact(r)

----------------------------------------------------------------------------
(* Python list primitives *)

\* the mutant of the slice: one item too many
PyPrefixOffByOne(s, k) ==
    IF k >= 0 THEN SubSeq(s, 1, Min(k + 1, Len(s)))
    ELSE SubSeq(s, 1, Max(Len(s) + k + 1, 0))

\* lst[:k]: the first k items for k >= 0, all but the last -k for k < 0
PyPrefix(s, k) ==
    IF k >= 0 THEN SubSeq(s, 1, Min(k, Len(s)))
    ELSE SubSeq(s, 1, Max(Len(s) + k, 0))

\* list.sort(key=score, reverse=True): descending and stable, an item goes
\* behind every item already placed whose score is >= its own
StableInsertDesc(x, s) ==
    LET ahead == {i \in 1..Len(s) : RLeq(x.score, s[i].score)}
        p == IF ahead = {} THEN 0 ELSE CHOOSE i \in ahead : \A j \in ahead : j <= i
    IN  SubSeq(s, 1, p) \o <<x>> \o SubSeq(s, p + 1, Len(s))

\* the mutant of the sort: an item goes in front of items of equal score
UnstableInsertDesc(x, s) ==
    LET ahead == {i \in 1..Len(s) : RLess(x.score, s[i].score)}
        p == IF ahead = {} THEN 0 ELSE CHOOSE i \in ahead : \A j \in ahead : j <= i
    IN  SubSeq(s, 1, p) \o <<x>> \o SubSeq(s, p + 1, Len(s))

InsertDesc(x, s) == StableInsertDesc(x, s)

RECURSIVE SortDescFrom(_, _, _)
SortDescFrom(s, i, acc) ==
    IF i > Len(s) THEN acc ELSE SortDescFrom(s, i + 1, InsertDesc(s[i], acc))

SortDesc(s) == SortDescFrom(s, 1, <<>>)

----------------------------------------------------------------------------
(* _tokenize: re.findall(r"[a-z0-9]+", text.lower()) as a set *)

Lower(c) == IF c = "R" THEN "r" ELSE IF c = "G" THEN "g" ELSE c
AlnumChars == {"r", "g", "u", "x", "1"}

RECURSIVE TokenScan(_, _, _, _)
TokenScan(text, i, cur, acc) ==
    LET flush == IF cur = <<>> THEN acc ELSE acc \cup {cur}
    IN  IF i > Len(text) THEN flush
        ELSE IF Lower(text[i]) \in AlnumChars
             THEN TokenScan(text, i + 1, Append(cur, Lower(text[i])), acc)
             ELSE TokenScan(text, i + 1, <<>>, flush)

Tokenize(text) == TokenScan(text, 1, <<>>, {})

----------------------------------------------------------------------------
(* Data: texts, embeddings, chunks *)

\* contents; <<>> also stands for a chunk without a "content" key, which
\* every read turns into "" (chunk.get("content", ""))
T_rg == <<"R", " ", "g">>
T_r == <<"r", "%">>
T_u == <<"u">>
T_sym == <<"%">>
T_word == <<"r", "g">>

Queries == {<<"r", " ", "G">>, <<"g">>, <<"x", "1">>, <<"%", " ">>, <<>>}

\* a chunk's "embedding" value: kind "none" is a missing key or None, "list"
\* a Python list of numbers (what the annotations and the store's list
\* column give), "scalar" a true value that is no sequence (a number)
NoEmb == [kind |-> "none", vec |-> <<>>]
ListEmb(v) == [kind |-> "list", vec |-> v]
ScalarEmb == [kind |-> "scalar", vec |-> <<>>]

\* chunk_id "" stands for a missing, None or empty chunk_id: every read is
\* chunk.get("chunk_id") or <derived key>
Chunk(cid, doc, text, emb) ==
    [chunk_id |-> cid, document_id |-> doc, content |-> text, embedding |-> emb]

K1 == Chunk("c1", "d1", T_rg, ListEmb(<<3, 4>>))
K2 == Chunk("c2", "d1", T_r, ListEmb(<<5, 0>>))
K3 == Chunk("", "d1", T_u, NoEmb)
K4 == Chunk("c1", "d2", T_sym, ListEmb(<<>>))
K5 == Chunk("", "d2", T_u, ScalarEmb)
K6 == Chunk("c3", "d2", T_word, ListEmb(<<3, -4>>))
K7 == Chunk("c4", "d1", <<>>, ListEmb(<<-5, 0>>))
K8 == Chunk("c5", "d2", T_r, ListEmb(<<6, 8>>))
ChunkPool == {K1, K2, K3, K4, K5, K6, K7, K8}

ChunkFields == {"chunk_id", "document_id", "content", "embedding"}
ChunkOf(r) == [f \in ChunkFields |-> r[f]]

SeqsUpTo(S, n) == UNION {[1..m -> S] : m \in 0..n}

----------------------------------------------------------------------------
(* retrieve_chunks_simple *)

\* mutant: overlap relative to the chunk's tokens, not the query's
KeywordScoreChunkRelative(query_tokens, chunk) ==
    LET chunk_tokens == Tokenize(chunk.content)
    IN  IF chunk_tokens = {} THEN Zero
        ELSE Rat(Cardinality(query_tokens \cap chunk_tokens),
                 Cardinality(chunk_tokens))

\* mutant: an empty query counts as matched by every chunk with tokens
KeywordScoreVacuousMatch(query_tokens, chunk) ==
    LET chunk_tokens == Tokenize(chunk.content)
    IN  IF chunk_tokens = {} THEN Zero
        ELSE IF query_tokens = {} THEN One
        ELSE Rat(Cardinality(query_tokens \cap chunk_tokens),
                 Cardinality(query_tokens))

KeywordScore(query_tokens, chunk) ==
    LET chunk_tokens == Tokenize(chunk.content)
    IN  IF chunk_tokens = {} THEN Zero
        ELSE Rat(Cardinality(query_tokens \cap chunk_tokens),
                 Max(Cardinality(query_tokens), 1))

ScoredSimple(q, cs) ==
    LET query_tokens == Tokenize(q)
    IN  [i \in 1..Len(cs) |->
            [score |-> KeywordScore(query_tokens, cs[i])] @@ cs[i]]

retrieve_chunks_simple(q, cs, k) == PyPrefix(SortDesc(ScoredSimple(q, cs)), k)

----------------------------------------------------------------------------
(* _cosine_similarity *)

RECURSIVE DotN(_, _, _)
DotN(v1, v2, n) == IF n = 0 THEN 0 ELSE DotN(v1, v2, n - 1) + v1[n] * v2[n]

\* np.linalg.norm on the vectors of this model, whose norms are integers
Norm(v, n) == CHOOSE r \in 0..DotN(v, v, n) : r * r = DotN(v, v, n)

\* float("nan"): what numpy gives for 0/0, nan/x and inf/inf.  It is no
\* rational; only _cosine_similarity called on its own can return it
NaN == <<0, 0>>

\* mutant: the guard on the norms is missing, numpy divides 0 by 0
CosineSimilarityNoNormGuard(vec1, vec2) ==
    IF Len(vec1) = 0 \/ Len(vec2) = 0 THEN Zero
    ELSE LET min_len == Min(Len(vec1), Len(vec2))
             dot_product == DotN(vec1, vec2, min_len)
             norm1 == Norm(vec1, min_len)
             norm2 == Norm(vec2, min_len)
         IN  IF norm1 * norm2 = 0 THEN NaN
             ELSE Rat(dot_product, norm1 * norm2)

\* mutant: vectors of different lengths are refused instead of truncated
CosineSimilarityMismatchIsZero(vec1, vec2) ==
    IF Len(vec1) = 0 \/ Len(vec2) = 0 \/ Len(vec1) # Len(vec2) THEN Zero
    ELSE LET min_len == Len(vec1)
             dot_product == DotN(vec1, vec2, min_len)
             norm1 == Norm(vec1, min_len)
             norm2 == Norm(vec2, min_len)
         IN  IF norm1 = 0 \/ norm2 = 0 THEN Zero
             ELSE Rat(dot_product, norm1 * norm2)

\* mutant: the dot product is not divided by the norms
CosineSimilarityDotOnly(vec1, vec2) ==
    IF Len(vec1) = 0 \/ Len(vec2) = 0 THEN Zero
    ELSE Rat(DotN(vec1, vec2, Min(Len(vec1), Len(vec2))), 1)

CosineSimilarity(vec1, vec2) ==
    IF Len(vec1) = 0 \/ Len(vec2) = 0 THEN Zero
    ELSE LET min_len == Min(Len(vec1), Len(vec2))
             dot_product == DotN(vec1, vec2, min_len)
             norm1 == Norm(vec1, min_len)
             norm2 == Norm(vec2, min_len)
         IN  IF norm1 = 0 \/ norm2 = 0 THEN Zero
             ELSE Rat(dot_product, norm1 * norm2)

\* What Python can pass as vec1 or vec2 (the annotations are not enforced).
\* kind "list": a flat list of numbers, vec its entries and nan the
\* positions that hold float("nan") (vec has 0 there); "text": a list with
\* an entry that is no number, such as "abc"; "ragged": rows of different
\* lengths; "nested": two rows of two numbers, not all zero; "scalar": a
\* number; "none": None
List(v) == [kind |-> "list", vec |-> v, nan |-> {}]
ListWithNaN(v, at) == [kind |-> "list", vec |-> v, nan |-> at]
Malformed(k) == [kind |-> k, vec |-> <<>>, nan |-> {}]

\* np.array(vec, dtype=np.float32) raises ValueError
ArrayRaises(a) == a.kind \in {"text", "ragged"}
\* np.array gives a 0-d array, len() of it raises TypeError
Unsized(a) == a.kind \in {"scalar", "none"}
\* len() of the array: the number of entries, or of rows
PyLen(a) == IF a.kind = "nested" THEN 2 ELSE Len(a.vec)

\* The body of the try block: whether it raised, and the value it returned
\* if it did not.
cosine_try(a, b) ==
    LET Raise == [raised |-> TRUE, value |-> Zero]
        Give(x) == [raised |-> FALSE, value |-> x]
    IN  IF ArrayRaises(a) \/ ArrayRaises(b) THEN Raise
        ELSE IF Unsized(a) THEN Raise
        ELSE IF PyLen(a) = 0 THEN Give(Zero)
        ELSE IF Unsized(b) THEN Raise
        ELSE IF PyLen(b) = 0 THEN Give(Zero)
        ELSE LET min_len == Min(PyLen(a), PyLen(b))
                 nan1 == a.nan \cap (1..min_len) # {}
                 nan2 == b.nan \cap (1..min_len) # {}
                 \* norm == 0 is false for a nan norm
                 zero1 == a.kind = "list" /\ ~nan1 /\ DotN(a.vec, a.vec, min_len) = 0
                 zero2 == b.kind = "list" /\ ~nan2 /\ DotN(b.vec, b.vec, min_len) = 0
             IN  IF a.kind = "nested" \/ b.kind = "nested"
                 \* np.dot refuses the shapes, or the quotient is an array
                 \* that float() refuses; a zero norm returns before that
                 THEN IF zero1 \/ zero2 THEN Give(Zero) ELSE Raise
                 ELSE IF nan1 \/ nan2
                 THEN IF zero1 \/ zero2 THEN Give(Zero) ELSE Give(NaN)
                 ELSE Give(CosineSimilarity(a.vec, b.vec))

\* _cosine_similarity: except Exception gives 0.0
cosine_similarity(a, b) ==
    LET body == cosine_try(a, b)
    IN  IF body.raised THEN Zero ELSE body.value

----------------------------------------------------------------------------
(* retrieve_chunks_semantic *)

\* Python truth value of an embedding: None and [] are false
Truthy(emb) == emb.kind = "scalar" \/ (emb.kind = "list" /\ emb.vec # <<>>)

\* mutant: chunks without a usable embedding are kept; _cosine_similarity
\* gives them 0.0 (empty vector, or the exception caught at line 85)
HasUsableEmbeddingAlways(chunk) == TRUE

\* not (not chunk_embedding or not isinstance(chunk_embedding, list))
HasUsableEmbedding(chunk) ==
    Truthy(chunk.embedding) /\ chunk.embedding.kind = "list"

ScoredSemantic(qe, cs) ==
    LET Keep(c) == HasUsableEmbedding(c)
        kept == SelectSeq(cs, Keep)
    IN  [i \in 1..Len(kept) |->
            LET similarity == CosineSimilarity(qe.vec, kept[i].embedding.vec)
            IN  [score |-> similarity, similarity |-> similarity] @@ kept[i]]

\* mutant: the guard on the query embedding is missing; _cosine_similarity
\* gives 0.0 for an empty query vector
SemanticWithoutQueryGuard(qe, cs, k) ==
    PyPrefix(SortDesc(ScoredSemantic(qe, cs)), k)

retrieve_chunks_semantic(qe, cs, k) ==
    IF ~Truthy(qe) THEN <<>>
    ELSE PyPrefix(SortDesc(ScoredSemantic(qe, cs)), k)

----------------------------------------------------------------------------
(* retrieve_chunks_hybrid *)

\* str(hash(content)): a key derived from the content, one per content and
\* never equal to a chunk_id
HashKey(text) ==
    CASE text = T_rg -> "#Rg"
      [] text = T_r -> "#r"
      [] text = T_u -> "#u"
      [] text = T_sym -> "#sym"
      [] text = T_word -> "#rg"
      [] OTHER -> "#"

\* chunk.get("chunk_id") or str(hash(chunk.get("content", "")))
KeyOf(c) == IF c.chunk_id # "" THEN c.chunk_id ELSE HashKey(c.content)

\* iteration order of a Python set of strings: fixed by the process's hash
\* seed; two of the possible orders are modelled
AllKeys == <<"c1", "c2", "c3", "c4", "c5", "#Rg", "#r", "#u", "#sym", "#rg", "#">>
Reverse(s) == [i \in 1..Len(s) |-> s[Len(s) + 1 - i]]
Seeds == {1, 2}
SetIteration(S, seed) ==
    LET In(k) == k \in S
    IN  SelectSeq(IF seed = 1 THEN AllKeys ELSE Reverse(AllKeys), In)

\* d = {}; for r in rs: d[key(r)] = r["score"]   (the last write wins)
ScoreDict(rs) ==
    [k \in {KeyOf(rs[i]) : i \in 1..Len(rs)} |->
        LET last == CHOOSE i \in 1..Len(rs) :
                       /\ KeyOf(rs[i]) = k
                       /\ \A j \in 1..Len(rs) : KeyOf(rs[j]) = k => j <= i
        IN  rs[last].score]

\* {k: v / max for k, v in d.items()} when d is not empty and max > 0
RescaleUnder(rounding, d) ==
    IF DOMAIN d = {} THEN d
    ELSE LET mx == CHOOSE v \in {d[k] : k \in DOMAIN d} :
                      \A k \in DOMAIN d : RLeq(d[k], v)
         IN  IF RLess(Zero, mx)
             THEN [k \in DOMAIN d |-> Round(rounding, RDiv(d[k], mx))]
             ELSE d

Rescale(d) == RescaleUnder("exact", d)

\* mutant: an identifier without a score gets the full score
GetDefaultOne(d, k) == IF k \in DOMAIN d THEN d[k] ELSE One

\* d.get(k, 0.0)
Get(d, k) == IF k \in DOMAIN d THEN d[k] ELSE Zero

\* the value of "semantic_score" when no query embedding was given
NoneScore == <<>>

\* mutant: the weights are used as they were passed
TotalWeightNeverPositive(total_weight) == FALSE

\* if total_weight > 0
TotalWeightIsPositive(total_weight) == RLess(Zero, total_weight)

\* lines 213-217: a weight after the normalisation
NormalizedWeight(rounding, weight, total_weight) ==
    IF TotalWeightIsPositive(total_weight)
    THEN Round(rounding, RDiv(weight, total_weight))
    ELSE weight

\* retrieve_chunks_hybrid, every operation of its own arithmetic rounded by
\* Round
HybridUnder(rounding, q, qe, cs, k, semantic_weight, keyword_weight, seed) ==
    LET total_weight == Round(rounding, RAdd(semantic_weight, keyword_weight))
        sw == NormalizedWeight(rounding, semantic_weight, total_weight)
        kw == NormalizedWeight(rounding, keyword_weight, total_weight)
        semantic_scores ==
            RescaleUnder(rounding,
                         IF Truthy(qe)
                         THEN ScoreDict(retrieve_chunks_semantic(qe, cs, Len(cs)))
                         ELSE <<>>)
        keyword_scores ==
            RescaleUnder(rounding, ScoreDict(retrieve_chunks_simple(q, cs, Len(cs))))
        all_chunk_ids ==
            SetIteration(DOMAIN semantic_scores \cup DOMAIN keyword_scores, seed)
        chunk_map ==
            [key \in {KeyOf(cs[i]) : i \in 1..Len(cs)} |->
                LET last == CHOOSE i \in 1..Len(cs) :
                               /\ KeyOf(cs[i]) = key
                               /\ \A j \in 1..Len(cs) : KeyOf(cs[j]) = key => j <= i
                IN  cs[last]]
        Combined(key) ==
            LET semantic_score == IF Truthy(qe) THEN Get(semantic_scores, key)
                                  ELSE Zero
            IN  Round(rounding,
                      RAdd(Round(rounding, RMul(semantic_score, sw)),
                           Round(rounding, RMul(Get(keyword_scores, key), kw))))
        Mapped(key) == key \in DOMAIN chunk_map
        ids == SelectSeq(all_chunk_ids, Mapped)
        scored_chunks ==
            [i \in 1..Len(ids) |->
                [score |-> Combined(ids[i]),
                 semantic_score |-> IF Truthy(qe) THEN Get(semantic_scores, ids[i])
                                    ELSE NoneScore,
                 keyword_score |-> Get(keyword_scores, ids[i])]
                @@ chunk_map[ids[i]]]
    IN  PyPrefix(SortDesc(scored_chunks), k)

retrieve_chunks_hybrid(q, qe, cs, k, semantic_weight, keyword_weight, seed) ==
    HybridUnder("exact", q, qe, cs, k, semantic_weight, keyword_weight, seed)

----------------------------------------------------------------------------
(* _get_query_embedding and retrieve_chunks_from_tower *)

\* config.get("rag", {}).get(key, default); <<>> stands for a missing key
DefaultSemanticWeight == <<7, 10>>
DefaultKeywordWeight == <<3, 10>>
NoRagConfig == [semantic_weight |-> <<>>, keyword_weight |-> <<>>]
Configs == {[rag |-> NoRagConfig],
            [rag |-> [semantic_weight |-> <<1, 5>>, keyword_weight |-> <<4, 5>>]]}
ConfigGet(v, default) == IF v = <<>> THEN default ELSE v

\* the search_method parameter; its default is "hybrid"
NotPassed == "<not passed>"
SearchMethod(arg) == IF arg = NotPassed THEN "hybrid" ELSE arg

\* mutant: the document filter is skipped
ScopeAll(all_chunks, doc) == all_chunks

\* lines 317-323: the chunks of the requested document, or all of them
Scope(all_chunks, doc) ==
    LET Mine(c) == c.document_id = doc
    IN  IF doc # "" THEN SelectSeq(all_chunks, Mine) ELSE all_chunks

\* mutant: a missing embedding is passed on to the semantic retriever
RankNoFallback(search_method, q, qe, filtered_chunks, k, cfg, seed) ==
    IF search_method = "keyword"
    THEN retrieve_chunks_simple(q, filtered_chunks, k)
    ELSE IF search_method = "semantic"
    THEN retrieve_chunks_semantic(qe, filtered_chunks, k)
    ELSE IF ~Truthy(qe) THEN retrieve_chunks_simple(q, filtered_chunks, k)
    ELSE retrieve_chunks_hybrid(q, qe, filtered_chunks, k,
            ConfigGet(cfg.rag.semantic_weight, DefaultSemanticWeight),
            ConfigGet(cfg.rag.keyword_weight, DefaultKeywordWeight), seed)

\* mutant: the hybrid branch ignores the configured weights
RankDefaultWeights(search_method, q, qe, filtered_chunks, k, cfg, seed) ==
    IF search_method = "keyword"
    THEN retrieve_chunks_simple(q, filtered_chunks, k)
    ELSE IF ~Truthy(qe) THEN retrieve_chunks_simple(q, filtered_chunks, k)
    ELSE IF search_method = "semantic"
    THEN retrieve_chunks_semantic(qe, filtered_chunks, k)
    ELSE retrieve_chunks_hybrid(q, qe, filtered_chunks, k,
            DefaultSemanticWeight, DefaultKeywordWeight, seed)

\* lines 327-361: the branch on search_method once the embedding is known;
\* every value other than "keyword" and "semantic" takes the hybrid branch
Rank(search_method, q, qe, filtered_chunks, k, cfg, seed) ==
    IF search_method = "keyword"
    THEN retrieve_chunks_simple(q, filtered_chunks, k)
    ELSE IF ~Truthy(qe) THEN retrieve_chunks_simple(q, filtered_chunks, k)
    ELSE IF search_method = "semantic"
    THEN retrieve_chunks_semantic(qe, filtered_chunks, k)
    ELSE retrieve_chunks_hybrid(q, qe, filtered_chunks, k,
            ConfigGet(cfg.rag.semantic_weight, DefaultSemanticWeight),
            ConfigGet(cfg.rag.keyword_weight, DefaultKeywordWeight), seed)

\* mutant: an exception of the store reaches the caller
StoreErrorRaises(fault) == fault # "none"

\* lines 306, 365-369: does the call raise to its caller when the store
\* raised `fault`?  Never: except Exception returns []
StoreErrorPropagates(fault) == FALSE

StoreFaults == {"none", "constructor", "read_all"}

\* what the provider answers once asked: an exception, no vector, a vector
Replies == {[kind |-> "raises", value |-> NoEmb],
            [kind |-> "empty", value |-> ListEmb(<<>>)],
            [kind |-> "ok", value |-> ListEmb(<<3, 4>>)],
            [kind |-> "ok", value |-> ListEmb(<<5, 0>>)]}

Return(value) ==
    /\ results' = value
    /\ pc' = "done"

\* A call of retrieve_chunks_from_tower as a record: its arguments, its
\* locals, its position and what it returned.  The call under study is Me.
Me ==
    [pc |-> pc, query |-> query, top_k |-> top_k, document_id |-> document_id,
     method_arg |-> method_arg, chunks |-> chunks,
     query_embedding |-> query_embedding, results |-> results, raised |-> raised,
     store_fault |-> store_fault, provider |-> provider,
     embed_calls |-> embed_calls]

Becomes(f) ==
    /\ pc' = f.pc
    /\ chunks' = f.chunks
    /\ query_embedding' = f.query_embedding
    /\ results' = f.results
    /\ raised' = f.raised
    /\ store_fault' = f.store_fault
    /\ provider' = f.provider
    /\ embed_calls' = f.embed_calls

\* lines 365-369: the store raised `fault`
Failed(f, fault) ==
    [f EXCEPT !.store_fault = fault, !.raised = StoreErrorPropagates(fault),
              !.results = <<>>, !.pc = "done"]

\* lines 302-314: from the entry to the call of read_all
Started(f, fault) ==
    IF ~TOWER_RAG_AVAILABLE THEN [f EXCEPT !.results = <<>>, !.pc = "done"]
    ELSE IF fault # "none" THEN Failed(f, fault)
    ELSE [f EXCEPT !.pc = "reading store"]

\* TowerChunkStore.__init__: tower.tables("chunks").create_if_not_exists
CreateIfNotExists(cat, fault) ==
    IF TOWER_RAG_AVAILABLE /\ fault = "none" THEN cat \cup {"chunks"} ELSE cat

\* mutant: the query embedding is fetched before the mode is looked at
KeywordModeNever(search_method) == FALSE

\* if search_method == "keyword"
KeywordMode(search_method) == search_method = "keyword"

\* lines 314-363: read_all returns `rows` (or raises); the call filters, then
\* ranks and returns (keyword mode, or no provider to ask) or asks the
\* provider and awaits
Fetched(f, fault, rows) ==
    IF fault # "none" THEN Failed(f, fault)
    ELSE LET filtered_chunks == Scope(rows, f.document_id)
             search_method == SearchMethod(f.method_arg)
             Ranked(qe) == Rank(search_method, f.query, qe, filtered_chunks,
                                f.top_k, config, hashseed)
         IN  IF KeywordMode(search_method)
             THEN [f EXCEPT !.chunks = filtered_chunks,
                            !.results = Ranked(f.query_embedding), !.pc = "done"]
             ELSE IF ~OPENAI_AVAILABLE \/ ~OPENAI_API_KEY
             THEN [f EXCEPT !.chunks = filtered_chunks,
                            !.embed_calls = @ + 1,
                            !.provider = IF ~OPENAI_AVAILABLE
                                         THEN "unavailable" ELSE "no key",
                            !.query_embedding = NoEmb,
                            !.results = Ranked(NoEmb), !.pc = "done"]
             ELSE [f EXCEPT !.chunks = filtered_chunks,
                            !.embed_calls = @ + 1,
                            !.provider = "asked", !.pc = "awaiting embedding"]

\* mutant: filtered_chunks is a module-level name, written by whichever
\* call read the store
ResumedSharedLocals(f, g) ==
    IF g.pc \in {"awaiting embedding", "done"} /\ g.store_fault = "none"
    THEN [f EXCEPT !.chunks = g.chunks] ELSE f

\* the locals with which call f resumes after its await while g is the other
\* call of the process: its own (lines 311-323 assign locals of the call)
Resumed(f, g) == f

\* lines 112-123, 336-363: the provider answered; the call ranks and returns
Answered(f, reply) ==
    [f EXCEPT !.provider = reply.kind,
              !.query_embedding = reply.value,
              !.results = Rank(SearchMethod(f.method_arg), f.query, reply.value,
                               f.chunks, f.top_k, config, hashseed),
              !.pc = "done"]

\* retrieve_chunks_from_tower from its entry to the call of read_all
Call ==
    /\ pc = "idle"
    /\ \E fault \in StoreFaults \ {"read_all"} :
          /\ Becomes(Started(Me, fault))
          /\ catalog' = CreateIfNotExists(catalog, fault)
    /\ UNCHANGED <<call, env, other>>

\* read_all answers; the call goes on to its return or to the await of the
\* provider
ReadAll ==
    /\ pc = "reading store"
    /\ \E fault \in StoreFaults \ {"constructor"} :
          Becomes(Fetched(Me, fault, table))
    /\ UNCHANGED <<call, env, catalog, other>>

\* the provider answers; the call resumes, ranks and returns
EmbeddingResponse ==
    /\ pc = "awaiting embedding"
    /\ \E reply \in Replies : Becomes(Answered(Resumed(Me, other), reply))
    /\ UNCHANGED <<call, env, catalog, other>>

Idle ==
    /\ pc = "idle"
    /\ results = <<>>
    /\ raised = FALSE
    /\ embed_calls = 0
    /\ store_fault = "none"
    /\ provider = "not asked"

Known == {"keyword", "semantic", "hybrid"}

\* no second call
NoOther == [pc |-> "none"]
\* no call of _cosine_similarity is under study
NoVectors == <<>>
\* the weights are the parameter defaults wherever the hybrid ranker is not
\* called directly
DefaultWeights ==
    [semantic_weight |-> DefaultSemanticWeight,
     keyword_weight |-> DefaultKeywordWeight]

TopKs == -1..MaxTopK
DocumentIds == {"", "d1", "d2"}
Methods == {"keyword", "semantic", "hybrid", "fuzzy", NotPassed}
RequestQueries == {<<"r", " ", "G">>, <<"%", " ">>}

\* the rows of the table: rows of StoreRows, in that order
StoreRows == <<K1, K2, K3, K4, K5, K6>>
RECURSIVE Pick(_, _)
Pick(rows, keep) ==
    IF rows = <<>> THEN <<>>
    ELSE (IF Len(rows) \in keep THEN Pick(SubSeq(rows, 1, Len(rows) - 1), keep)
                                     \o <<rows[Len(rows)]>>
          ELSE Pick(SubSeq(rows, 1, Len(rows) - 1), keep))
Tables == {Pick(StoreRows, keep) :
              keep \in {S \in SUBSET (1..Len(StoreRows)) : Cardinality(S) <= MaxStore}}

Init ==
    /\ Idle
    /\ query \in RequestQueries
    /\ top_k \in TopKs
    /\ document_id \in DocumentIds
    /\ method_arg \in Methods
    /\ TOWER_RAG_AVAILABLE \in BOOLEAN
    /\ OPENAI_AVAILABLE \in BOOLEAN
    /\ OPENAI_API_KEY \in BOOLEAN
    /\ config \in Configs
    /\ catalog \in {{}, {"chunks"}}
    /\ table \in (IF "chunks" \in catalog THEN Tables ELSE {<<>>})
    /\ hashseed \in Seeds
    /\ chunks = <<>>
    /\ query_embedding = NoEmb
    /\ weights = DefaultWeights
    /\ vectors = NoVectors
    /\ other = NoOther

Next == Call \/ ReadAll \/ EmbeddingResponse

Spec == Init /\ [][Next]_vars

----------------------------------------------------------------------------
(* Two requests served by one process at the same time *)

IdleCall(q, k, doc, method) ==
    [pc |-> "idle", query |-> q, top_k |-> k, document_id |-> doc,
     method_arg |-> method, chunks |-> <<>>, query_embedding |-> NoEmb,
     results |-> <<>>, raised |-> FALSE, store_fault |-> "none",
     provider |-> "not asked", embed_calls |-> 0]

ConcurrentTopKs == {1, MaxTopK}
ConcurrentTables == {<<K1, K2, K6>>, <<K1, K4, K3>>}

InitConcurrent ==
    /\ Idle
    /\ query \in RequestQueries
    /\ top_k \in ConcurrentTopKs
    /\ document_id \in DocumentIds
    /\ method_arg \in Known
    /\ TOWER_RAG_AVAILABLE = TRUE
    /\ OPENAI_AVAILABLE = TRUE
    /\ OPENAI_API_KEY \in BOOLEAN
    /\ config = [rag |-> NoRagConfig]
    /\ catalog = {"chunks"}
    /\ table \in ConcurrentTables
    /\ hashseed \in Seeds
    /\ chunks = <<>>
    /\ query_embedding = NoEmb
    /\ weights = DefaultWeights
    /\ vectors = NoVectors
    /\ other \in {IdleCall(q, k, doc, method) :
                     q \in RequestQueries, k \in ConcurrentTopKs,
                     doc \in DocumentIds, method \in Known}

OtherCall ==
    /\ other.pc = "idle"
    /\ \E fault \in StoreFaults \ {"read_all"} :
          /\ other' = Started(other, fault)
          /\ catalog' = CreateIfNotExists(catalog, fault)
    /\ UNCHANGED <<pc, chunks, query_embedding, results, raised, store_fault,
                   provider, embed_calls, call, env>>

OtherReadAll ==
    /\ other.pc = "reading store"
    /\ \E fault \in StoreFaults \ {"constructor"} :
          other' = Fetched(other, fault, table)
    /\ UNCHANGED <<pc, chunks, query_embedding, results, raised, store_fault,
                   provider, embed_calls, call, env, catalog>>

OtherEmbeddingResponse ==
    /\ other.pc = "awaiting embedding"
    /\ \E reply \in Replies : other' = Answered(Resumed(other, Me), reply)
    /\ UNCHANGED <<pc, chunks, query_embedding, results, raised, store_fault,
                   provider, embed_calls, call, env, catalog>>

NextConcurrent ==
    \/ Call
    \/ ReadAll
    \/ EmbeddingResponse
    \/ OtherCall
    \/ OtherReadAll
    \/ OtherEmbeddingResponse

SpecConcurrent == InitConcurrent /\ [][NextConcurrent]_vars

----------------------------------------------------------------------------
(* The retrievers called on their own *)

NoOrchestrator ==
    /\ document_id = ""
    /\ method_arg = NotPassed
    /\ TOWER_RAG_AVAILABLE = FALSE
    /\ OPENAI_AVAILABLE = FALSE
    /\ OPENAI_API_KEY = FALSE
    /\ config = [rag |-> NoRagConfig]
    /\ table = <<>>
    /\ hashseed = 1
    /\ weights = DefaultWeights
    /\ vectors = NoVectors
    /\ catalog = {}
    /\ other = NoOther

InitSimple ==
    /\ Idle
    /\ NoOrchestrator
    /\ query \in Queries
    /\ chunks \in SeqsUpTo(ChunkPool, MaxChunks)
    /\ top_k \in TopKs
    /\ query_embedding = NoEmb

CallSimple ==
    /\ pc = "idle"
    /\ Return(retrieve_chunks_simple(query, chunks, top_k))
    /\ UNCHANGED <<chunks, query_embedding, raised, store_fault, provider,
                   embed_calls, call, env, catalog, other>>

NextSimple == CallSimple

SpecSimple == InitSimple /\ [][NextSimple]_vars

QueryEmbeddings == {NoEmb, ListEmb(<<>>), ListEmb(<<3, 4>>), ListEmb(<<5, 0>>),
                    ListEmb(<<0, 0>>), ListEmb(<<5>>)}

InitSemantic ==
    /\ Idle
    /\ NoOrchestrator
    /\ query = <<>>
    /\ chunks \in SeqsUpTo(ChunkPool, MaxChunks)
    /\ top_k \in TopKs
    /\ query_embedding \in QueryEmbeddings

CallSemantic ==
    /\ pc = "idle"
    /\ Return(retrieve_chunks_semantic(query_embedding, chunks, top_k))
    /\ UNCHANGED <<chunks, query_embedding, raised, store_fault, provider,
                   embed_calls, call, env, catalog, other>>

NextSemantic == CallSemantic

SpecSemantic == InitSemantic /\ [][NextSemantic]_vars

\* _cosine_similarity called directly
CosineArguments ==
    {List(<<>>), List(<<0, 0>>), List(<<3, 4>>), List(<<5, 0>>), List(<<0, 5>>),
     List(<<-5, 0>>), List(<<5>>), List(<<3, 4, 0>>), List(<<5, 0, 12>>),
     List(<<0, 0, 5>>), ListWithNaN(<<0, 5>>, {1}), ListWithNaN(<<3, 4, 0>>, {3}),
     Malformed("text"), Malformed("ragged"), Malformed("nested"),
     Malformed("scalar"), Malformed("none")}

InitCosine ==
    /\ Idle
    /\ document_id = ""
    /\ method_arg = NotPassed
    /\ TOWER_RAG_AVAILABLE = FALSE
    /\ OPENAI_AVAILABLE = FALSE
    /\ OPENAI_API_KEY = FALSE
    /\ config = [rag |-> NoRagConfig]
    /\ table = <<>>
    /\ catalog = {}
    /\ hashseed = 1
    /\ weights = DefaultWeights
    /\ other = NoOther
    /\ query = <<>>
    /\ chunks = <<>>
    /\ top_k = 0
    /\ query_embedding = NoEmb
    /\ vectors \in [vec1 : CosineArguments, vec2 : CosineArguments]

CallCosine ==
    /\ pc = "idle"
    /\ Return(cosine_similarity(vectors.vec1, vectors.vec2))
    /\ UNCHANGED <<chunks, query_embedding, raised, store_fault, provider,
                   embed_calls, call, env, catalog, other>>

NextCosine == CallCosine

SpecCosine == InitCosine /\ [][NextCosine]_vars

\* retrieve_chunks_hybrid called directly, and the same call made once more:
\* in the same process or in another one (a second worker, the service after
\* a restart), whose string-hash seed is its own
HybridQueries == {<<"r", " ", "G">>, <<"%", " ">>}
HybridQueryEmbeddings == {NoEmb, ListEmb(<<3, 4>>), ListEmb(<<5, 0>>)}
HybridPool == {K1, K2, K3, K4, K6, K7}
Weights == {[semantic_weight |-> <<7, 10>>, keyword_weight |-> <<3, 10>>],
            [semantic_weight |-> <<4, 5>>, keyword_weight |-> <<2, 5>>],
            [semantic_weight |-> Zero, keyword_weight |-> Zero],
            [semantic_weight |-> <<1, 2>>, keyword_weight |-> <<-1, 2>>]}

InitHybrid ==
    /\ Idle
    /\ document_id = ""
    /\ method_arg = NotPassed
    /\ TOWER_RAG_AVAILABLE = FALSE
    /\ OPENAI_AVAILABLE = FALSE
    /\ OPENAI_API_KEY = FALSE
    /\ config = [rag |-> NoRagConfig]
    /\ table = <<>>
    /\ catalog = {}
    /\ hashseed \in Seeds
    /\ query \in HybridQueries
    /\ query_embedding \in HybridQueryEmbeddings
    /\ chunks \in SeqsUpTo(HybridPool, MaxChunks)
    /\ top_k \in TopKs
    /\ weights \in Weights
    /\ vectors = NoVectors
    /\ other = [pc |-> "idle", results |-> <<>>, hashseed |-> hashseed]

CallHybrid ==
    /\ pc = "idle"
    /\ Return(retrieve_chunks_hybrid(query, query_embedding, chunks, top_k,
                                     weights.semantic_weight,
                                     weights.keyword_weight, hashseed))
    /\ UNCHANGED <<chunks, query_embedding, raised, store_fault, provider,
                   embed_calls, call, env, catalog, other>>

CallHybridAgain ==
    /\ pc = "done"
    /\ other.pc = "idle"
    /\ \E seed \in Seeds :
          other' = [pc |-> "done",
                    results |-> retrieve_chunks_hybrid(query, query_embedding,
                                    chunks, top_k, weights.semantic_weight,
                                    weights.keyword_weight, seed),
                    hashseed |-> seed]
    /\ UNCHANGED <<pc, chunks, query_embedding, results, raised, store_fault,
                   provider, embed_calls, call, env, catalog>>

NextHybrid == CallHybrid \/ CallHybridAgain

SpecHybrid == InitHybrid /\ [][NextHybrid]_vars

\* retrieve_chunks_hybrid called with weights (semantic_weight,
\* keyword_weight) and called again, in the same process, with both weights
\* multiplied by a factor.  The weights and their multiples are floats, and
\* the arithmetic of the function rounds as floats do.
ScaledWeights == {One, <<1, 2>>, <<1, Pow2(Precision)>>, <<5, Pow2(Precision)>>}
Factors == {<<2, 1>>, <<3, 1>>}
ScaledPool == {K1, K2, K8}
ScaledQueryEmbeddings == {NoEmb, ListEmb(<<3, 4>>)}
ScaledTopKs == {1, MaxTopK}

InitScaled ==
    /\ Idle
    /\ document_id = ""
    /\ method_arg = NotPassed
    /\ TOWER_RAG_AVAILABLE = FALSE
    /\ OPENAI_AVAILABLE = FALSE
    /\ OPENAI_API_KEY = FALSE
    /\ config = [rag |-> NoRagConfig]
    /\ table = <<>>
    /\ catalog = {}
    /\ vectors = NoVectors
    /\ hashseed \in Seeds
    /\ query \in HybridQueries
    /\ query_embedding \in ScaledQueryEmbeddings
    /\ chunks \in SeqsUpTo(ScaledPool, MaxChunks - 1)
    /\ top_k \in ScaledTopKs
    /\ weights \in [semantic_weight : ScaledWeights, keyword_weight : ScaledWeights]
    /\ other = [pc |-> "idle", results |-> <<>>, factor |-> One]

CallHybridFloat ==
    /\ pc = "idle"
    /\ Return(HybridUnder("float", query, query_embedding, chunks, top_k,
                          weights.semantic_weight, weights.keyword_weight,
                          hashseed))
    /\ UNCHANGED <<chunks, query_embedding, raised, store_fault, provider,
                   embed_calls, call, env, catalog, other>>

CallHybridScaled ==
    /\ pc = "done"
    /\ other.pc = "idle"
    /\ \E c \in Factors :
          other' = [pc |-> "done",
                    results |-> HybridUnder("float", query, query_embedding, chunks,
                                    top_k, RMul(c, weights.semantic_weight),
                                    RMul(c, weights.keyword_weight), hashseed),
                    factor |-> c]
    /\ UNCHANGED <<pc, chunks, query_embedding, results, raised, store_fault,
                   provider, embed_calls, call, env, catalog>>

NextScaled == CallHybridFloat \/ CallHybridScaled

SpecScaled == InitScaled /\ [][NextScaled]_vars

----------------------------------------------------------------------------
(* The callers of retrieve_chunks_from_tower *)

\* rag_service.verify_claims(payload).  The payload's query, document_id,
\* top_k and search_method are the variables of those names; its chunks and
\* the caller's position and return value are in `other`.  asyncio.run
\* raises RuntimeError when the thread is already running an event loop.
\* A key that a returned dict does not have is "".
PayloadChunks == {<<>>, <<K2>>, <<K6, K1>>}
PayloadQueries == {<<>>, <<"r", " ", "G">>}
NothingReturned == [query |-> <<>>, chunks |-> <<>>, source |-> "",
                    search_method |-> "", error |-> ""]

InitVerify ==
    /\ pc = "not called"
    /\ results = <<>>
    /\ raised = FALSE
    /\ embed_calls = 0
    /\ store_fault = "none"
    /\ provider = "not asked"
    /\ query \in PayloadQueries
    /\ top_k \in ConcurrentTopKs
    /\ document_id \in DocumentIds
    /\ method_arg \in {"keyword", NotPassed}
    /\ TOWER_RAG_AVAILABLE \in BOOLEAN
    /\ OPENAI_AVAILABLE = TRUE
    /\ OPENAI_API_KEY = TRUE
    /\ config = [rag |-> NoRagConfig]
    /\ catalog = {"chunks"}
    /\ table \in ConcurrentTables
    /\ hashseed = 1
    /\ chunks = <<>>
    /\ query_embedding = NoEmb
    /\ weights = DefaultWeights
    /\ vectors = NoVectors
    /\ other \in {[pc |-> "start", chunks |-> cs, running_loop |-> b,
                    returned |-> NothingReturned] :
                      cs \in PayloadChunks, b \in BOOLEAN}

\* lines 416-431: the fallback after the Tower branch
SimpleFallback(q, cs, k) ==
    IF cs # <<>>
    THEN [query |-> q, chunks |-> retrieve_chunks_simple(q, cs, k),
          source |-> "simple", search_method |-> "keyword", error |-> ""]
    ELSE [query |-> q, chunks |-> <<>>, source |-> "none", search_method |-> "",
          error |-> "No chunks provided and Tower RAG unavailable"]

\* lines 387-404: up to the return, or to asyncio.run starting the coroutine
VerifyClaims ==
    /\ other.pc = "start"
    /\ IF query = <<>>
       THEN /\ other' = [other EXCEPT !.pc = "returned",
                                      !.returned = [NothingReturned EXCEPT
                                          !.error = "Query is required"]]
            /\ pc' = pc
       ELSE IF document_id # "" /\ TOWER_RAG_AVAILABLE /\ ~other.running_loop
       THEN /\ other' = [other EXCEPT !.pc = "in asyncio.run"]
            /\ pc' = "idle"
       ELSE /\ other' = [other EXCEPT !.pc = "returned",
                                      !.returned = SimpleFallback(query, other.chunks, top_k)]
            /\ pc' = pc
    /\ UNCHANGED <<chunks, query_embedding, results, raised, store_fault,
                   provider, embed_calls, call, env, catalog>>

\* lines 402-414: asyncio.run has returned the coroutine's value, or raised
\* what the coroutine raised
VerifyClaimsResumed ==
    /\ other.pc = "in asyncio.run"
    /\ pc = "done"
    /\ other' = [other EXCEPT
                    !.pc = "returned",
                    !.returned =
                        IF raised THEN SimpleFallback(query, other.chunks, top_k)
                        ELSE [query |-> query, chunks |-> results,
                              source |-> "tower",
                              search_method |-> SearchMethod(method_arg),
                              error |-> ""]]
    /\ UNCHANGED <<pc, chunks, query_embedding, results, raised, store_fault,
                   provider, embed_calls, call, env, catalog>>

NextVerify ==
    \/ VerifyClaims
    \/ Call
    \/ ReadAll
    \/ EmbeddingResponse
    \/ VerifyClaimsResumed

SpecVerify == InitVerify /\ [][NextVerify]_vars

\* agents.chunk_retriever.retrieve_chunks(claim, document_id, company_id,
\* top_k).  claim is the variable query.  Line 29 calls the coroutine
\* function retrieve_chunks_from_tower without await: the value bound to the
\* local `chunks` is a coroutine object, and the body of the orchestrator
\* does not start.  A coroutine object is truthy and has no len().
Coroutine == [kind |-> "coroutine"]
NoLocal == [kind |-> "unbound"]
IsCoroutine(v) == v = Coroutine
TruthyValue(v) == IF IsCoroutine(v) THEN TRUE ELSE v # <<>>
LenRaises(v) == IsCoroutine(v)
Claims == RequestQueries \cup {<<>>}

InitRetrieve ==
    /\ pc = "not called"
    /\ results = <<>>
    /\ raised = FALSE
    /\ embed_calls = 0
    /\ store_fault = "none"
    /\ provider = "not asked"
    /\ query \in Claims
    /\ top_k \in TopKs
    /\ document_id \in DocumentIds
    /\ method_arg = NotPassed
    /\ TOWER_RAG_AVAILABLE \in BOOLEAN
    /\ OPENAI_AVAILABLE = TRUE
    /\ OPENAI_API_KEY = TRUE
    /\ config = [rag |-> NoRagConfig]
    /\ catalog = {"chunks"}
    /\ table \in ConcurrentTables
    /\ hashseed = 1
    /\ chunks = <<>>
    /\ query_embedding = NoEmb
    /\ weights = DefaultWeights
    /\ vectors = NoVectors
    /\ other = [pc |-> "start", chunks |-> NoLocal, raised |-> FALSE,
                returned |-> NoLocal]

\* lines 24-33: the log line, the test of document_id and the call without
\* await; without a document_id, lines 41-42
RetrieveChunksCall ==
    /\ other.pc = "start"
    /\ other' = IF document_id # ""
                THEN [other EXCEPT !.pc = "line 34", !.chunks = Coroutine]
                ELSE [other EXCEPT !.pc = "returned", !.returned = <<>>]
    /\ UNCHANGED <<pc, chunks, query_embedding, results, raised, store_fault,
                   provider, embed_calls, call, env, catalog>>

\* lines 34-42: `if chunks:`, the log line with len(chunks) whose TypeError
\* the except clause of line 37 catches, and the fallback
RetrieveChunksReturn ==
    /\ other.pc = "line 34"
    /\ other' = [other EXCEPT
                    !.pc = "returned",
                    !.returned = IF TruthyValue(other.chunks) /\ ~LenRaises(other.chunks)
                                 THEN other.chunks
                                 ELSE <<>>]
    /\ UNCHANGED <<pc, chunks, query_embedding, results, raised, store_fault,
                   provider, embed_calls, call, env, catalog>>

NextRetrieve ==
    \/ RetrieveChunksCall
    \/ RetrieveChunksReturn

SpecRetrieve == InitRetrieve /\ [][NextRetrieve]_vars

\* api/routes/verification.verify_claims, the handler of POST /verify.  The
\* transcript, the extracted claims and the company's documents are what the
\* collaborators return (they return normally here); a claim is its text.
\* Line 77 calls retrieve_chunks_from_tower without await, as line 29 of the
\* chunk retriever does: `chunks` is a coroutine object, which is truthy and
\* cannot be iterated.
Transcripts == {<<>>, <<"r", " ", "G">>}
ClaimTexts == RequestQueries \cup {<<>>}
MaxClaims == 2
ExtractedClaims == SeqsUpTo(ClaimTexts, MaxClaims)
CompanyDocuments == {<<>>, <<[document_id |-> "d1"]>>,
                     <<[document_id |-> "d2"], [document_id |-> "d1"]>>}
NoResponse == [status |-> "none", results |-> <<>>]
HTTPException(code) == [status |-> code, results |-> <<>>]
VerificationResponse(rs) == [status |-> "200", results |-> rs]
IterationRaises(v) == IsCoroutine(v)
NotFound == [verdict |-> "NOT_FOUND", citations |-> <<>>]
\* what verification_agent.verify_claim returns for the content of chunks
Verified(content) == [verdict |-> "verified over", content |-> content]

InitWorkflow ==
    /\ pc = "not called"
    /\ results = <<>>
    /\ raised = FALSE
    /\ embed_calls = 0
    /\ store_fault = "none"
    /\ provider = "not asked"
    /\ query = <<>>
    /\ top_k = 3
    /\ document_id = ""
    /\ method_arg = NotPassed
    /\ TOWER_RAG_AVAILABLE \in BOOLEAN
    /\ OPENAI_AVAILABLE = TRUE
    /\ OPENAI_API_KEY = TRUE
    /\ config = [rag |-> NoRagConfig]
    /\ catalog = {"chunks"}
    /\ table \in ConcurrentTables
    /\ hashseed = 1
    /\ chunks = <<>>
    /\ query_embedding = NoEmb
    /\ weights = DefaultWeights
    /\ vectors = NoVectors
    /\ other \in {[pc |-> "step 1", transcript |-> t, claims |-> cl,
                    documents |-> ds, claim |-> 1, chunks |-> NoLocal,
                    results |-> <<>>, response |-> NoResponse] :
                      t \in Transcripts, cl \in ExtractedClaims,
                      ds \in CompanyDocuments}

\* lines 35-44
FetchTranscript ==
    /\ other.pc = "step 1"
    /\ other' = IF other.transcript = <<>>
                THEN [other EXCEPT !.pc = "responded",
                                   !.response = HTTPException("400")]
                ELSE [other EXCEPT !.pc = "step 2"]
    /\ UNCHANGED <<pc, chunks, query_embedding, results, raised, store_fault,
                   provider, embed_calls, call, env, catalog>>

\* lines 46-51
ExtractClaims ==
    /\ other.pc = "step 2"
    /\ other' = IF other.claims = <<>>
                THEN [other EXCEPT !.pc = "responded",
                                   !.response = VerificationResponse(<<>>)]
                ELSE [other EXCEPT !.pc = "step 3"]
    /\ UNCHANGED <<pc, chunks, query_embedding, results, raised, store_fault,
                   provider, embed_calls, call, env, catalog>>

\* lines 53-62
GetDocuments ==
    /\ other.pc = "step 3"
    /\ other' = IF other.documents = <<>>
                THEN [other EXCEPT !.pc = "responded",
                                   !.response = VerificationResponse(<<>>)]
                ELSE [other EXCEPT !.pc = "step 4", !.claim = 1,
                                   !.results = <<>>]
    /\ UNCHANGED <<pc, chunks, query_embedding, results, raised, store_fault,
                   provider, embed_calls, call, env, catalog>>

\* lines 63-81 and 105-106: the head of the loop up to the call without
\* await, or the response after the last claim
RetrieveForClaim ==
    /\ other.pc = "step 4"
    /\ IF other.claim > Len(other.claims)
       THEN /\ other' = [other EXCEPT !.pc = "responded",
                                      !.response = VerificationResponse(other.results)]
            /\ UNCHANGED <<query, top_k, document_id>>
       ELSE IF other.claims[other.claim] = <<>>
       THEN /\ other' = [other EXCEPT !.claim = @ + 1]
            /\ UNCHANGED <<query, top_k, document_id>>
       ELSE /\ query' = other.claims[other.claim]
            /\ document_id' = other.documents[1].document_id
            /\ top_k' = 3
            /\ other' = [other EXCEPT !.pc = "line 84", !.chunks = Coroutine]
    /\ UNCHANGED <<pc, chunks, query_embedding, results, raised, store_fault,
                   provider, embed_calls, method_arg, weights, vectors, env,
                   catalog>>

\* lines 83-103 and 108-116: the result entry of the claim, or the TypeError
\* of the comprehension over `chunks` turned into a 500 response
VerifyClaim ==
    /\ other.pc = "line 84"
    /\ other' =
          IF TruthyValue(other.chunks)
          THEN IF IterationRaises(other.chunks)
               THEN [other EXCEPT !.pc = "responded",
                                  !.response = HTTPException("500")]
               ELSE [other EXCEPT
                        !.pc = "step 4", !.claim = @ + 1,
                        !.results = Append(@,
                            [claim |-> query,
                             verification |->
                                Verified([i \in DOMAIN other.chunks |->
                                             other.chunks[i].content]),
                             chunks |-> other.chunks,
                             document_id |-> document_id])]
          ELSE [other EXCEPT
                   !.pc = "step 4", !.claim = @ + 1,
                   !.results = Append(@,
                       [claim |-> query, verification |-> NotFound,
                        chunks |-> <<>>, document_id |-> document_id])]
    /\ UNCHANGED <<pc, chunks, query_embedding, results, raised, store_fault,
                   provider, embed_calls, call, env, catalog>>

NextWorkflow ==
    \/ FetchTranscript
    \/ ExtractClaims
    \/ GetDocuments
    \/ RetrieveForClaim
    \/ VerifyClaim

SpecWorkflow == InitWorkflow /\ [][NextWorkflow]_vars

----------------------------------------------------------------------------
(* Properties of the keyword retriever (SpecSimple) *)

Done == pc = "done"

\* the score the contract gives a chunk:
\* |tokens(query) /\ tokens(content)| / max(|tokens(query)|, 1)
OverlapRatio(q, c) ==
    Rat(Cardinality(Tokenize(q) \cap Tokenize(c.content)),
        Max(Cardinality(Tokenize(q)), 1))

InUnit(r) == RLeq(Zero, r) /\ RLeq(r, One)

Occurrences(s, x) == Cardinality({i \in 1..Len(s) : s[i] = x})
ResultChunks == [i \in 1..Len(results) |-> ChunkOf(results[i])]

\* a number of items "min(top_k, n)": no item when top_k is negative
FirstTopK(n) == Max(Min(top_k, n), 0)
\* the number of items of the slice [:top_k] of a list of n items
Sliced(n) == IF top_k >= 0 THEN Min(top_k, n) ELSE Max(n + top_k, 0)

\* C6: for all values of top_k the keyword retriever returns at most
\* min(top_k, |C|) items (none for a negative top_k), each with a score in
\* [0,1].
C6_AtMostMinForAllTopK ==
    Done =>
        /\ Len(results) <= FirstTopK(Len(chunks))
        /\ \A i \in 1..Len(results) : InUnit(results[i].score)

\* What holds of the code instead: every returned score is in [0,1] and at
\* most |C| items are returned; at most min(top_k, |C|) items when
\* top_k >= 0, and exactly max(|C| + top_k, 0) items when top_k < 0.
AtMostMinForNonNegativeTopK ==
    Done =>
        /\ Len(results) <= Len(chunks)
        /\ top_k >= 0 => Len(results) <= Min(top_k, Len(chunks))
        /\ top_k < 0 => Len(results) = Max(Len(chunks) + top_k, 0)
        /\ \A i \in 1..Len(results) : InUnit(results[i].score)

EmptyQueryGives(count) ==
    Done =>
        /\ Tokenize(query) = {} =>
              /\ ~raised
              /\ Len(results) = count
              /\ \A i \in 1..Len(results) :
                    /\ ChunkOf(results[i]) = chunks[i]
                    /\ results[i].score = Zero
        /\ (\A p \in 1..Len(chunks) :
                Tokenize(query) \cap Tokenize(chunks[p].content) = {})
              => \A i \in 1..Len(results) : results[i].score = Zero

\* C8: with a query without alphanumeric tokens the keyword retriever
\* returns the first min(top_k, |C|) chunks (none for a negative top_k), all
\* with score exactly 0, and does not fail; a query that shares no token
\* with any chunk gives every returned chunk score 0.
C8_EmptyQueryFirstMinTopK == EmptyQueryGives(FirstTopK(Len(chunks)))

\* What holds of the code instead: the same, the number of chunks being that
\* of the slice [:top_k].
EmptyQueryScoresZero == EmptyQueryGives(Sliced(Len(chunks)))

\* the items of s whose score is v, in order
WithScore(s, v) ==
    LET Eq(x) == x.score = v
    IN  SelectSeq(s, Eq)

IsPrefix(s, t) == Len(s) <= Len(t) /\ s = SubSeq(t, 1, Len(s))

\* C9: keyword ranking is stable: the returned chunks of any one score are,
\* in order, the first input chunks of that score.
C9_TiesKeepInputOrder ==
    Done =>
        \A i \in 1..Len(results) :
            LET v == results[i].score
                Same(c) == OverlapRatio(query, c) = v
                SameResult(c) == c.score = v
                got == SelectSeq(results, SameResult)
            IN  IsPrefix([n \in 1..Len(got) |-> ChunkOf(got[n])],
                         SelectSeq(chunks, Same))

C9_Witness ==
    /\ Done
    /\ Len(results) = 3
    /\ ChunkOf(results[1]) = chunks[3]
    /\ results[2].score = results[3].score
    /\ ChunkOf(results[2]) # ChunkOf(results[3])
    /\ ChunkOf(results[2]) = chunks[1]
    /\ RLess(results[2].score, results[1].score)

----------------------------------------------------------------------------
(* Properties of the semantic retriever (SpecSemantic) *)

\* cosine similarity as the contract states it, for the vectors of the model
Cosine(v1, v2) ==
    IF DotN(v1, v1, Len(v1)) = 0 \/ DotN(v2, v2, Len(v2)) = 0 THEN Zero
    ELSE Rat(DotN(v1, v2, Len(v1)), Norm(v1, Len(v1)) * Norm(v2, Len(v2)))

Usable(c) == c.embedding.kind = "list" /\ c.embedding.vec # <<>>

\* what C10 says but for the number of items: given a query embedding the
\* result has `count(n)` entries, n the number of chunks with a usable
\* embedding (a non-empty list); all entries are such chunks, scored by their
\* cosine similarity to the query embedding, in non-increasing score order,
\* ties in input order, and no usable chunk left out scores higher than a
\* returned one; a chunk set without usable embeddings gives the empty list.
SemanticGives(count(_)) ==
    (Done /\ Truthy(query_embedding)) =>
        LET usable == SelectSeq(chunks, Usable)
            qv == query_embedding.vec
        IN  /\ Len(results) = count(Len(usable))
            /\ usable = <<>> => results = <<>>
            /\ \A i \in 1..Len(results) :
                  LET v == results[i].score
                      Same(c) == Usable(c) /\ CosineSimilarity(qv, c.embedding.vec) = v
                      SameResult(c) == c.score = v
                      got == SelectSeq(results, SameResult)
                  IN  /\ Usable(results[i])
                      /\ results[i].similarity = v
                      /\ Len(qv) = Len(results[i].embedding.vec)
                            => v = Cosine(qv, results[i].embedding.vec)
                      /\ IsPrefix([n \in 1..Len(got) |-> ChunkOf(got[n])],
                                  SelectSeq(chunks, Same))
                      /\ Cardinality({p \in 1..Len(usable) :
                            RLess(v, CosineSimilarity(qv, usable[p].embedding.vec))})
                         = Cardinality({j \in 1..Len(results) :
                            RLess(v, results[j].score)})
            /\ \A i, j \in 1..Len(results) :
                  i < j => RLeq(results[j].score, results[i].score)

\* C10: the semantic retriever returns exactly the first top_k (all, if
\* there are fewer; none for a negative top_k) of the chunks with a usable
\* embedding, sorted by non-increasing cosine similarity; chunks without one
\* never appear.
C10_SemanticFirstTopK == SemanticGives(FirstTopK)

\* What holds of the code instead: the same, the number of entries being
\* that of the slice [:top_k].
SemanticRanksUsableChunksOnly == SemanticGives(Sliced)

\* C11: called with an empty or absent query embedding the semantic
\* retriever returns the empty list and raises nothing, for every chunk set
\* and top_k, also when chunks carry valid embeddings.
C11_NoQueryEmbeddingGivesEmptyList ==
    (Done /\ query_embedding \in {NoEmb, ListEmb(<<>>)}) =>
        /\ results = <<>>
        /\ ~raised

C11_Witness ==
    /\ Done
    /\ query_embedding = ListEmb(<<>>)
    /\ top_k = 2
    /\ Len(chunks) = 2
    /\ \A i \in 1..Len(chunks) : Usable(chunks[i])
    /\ results = <<>>
    /\ ~raised

NonZero(v) == \E n \in 1..Len(v) : v[n] # 0
ExactMatches ==
    {p \in 1..Len(chunks) :
        Usable(chunks[p]) /\ chunks[p].embedding.vec = query_embedding.vec}
\* the usable chunks whose similarity to the query embedding is 1
Aligned ==
    {p \in 1..Len(chunks) :
        /\ Usable(chunks[p])
        /\ CosineSimilarity(query_embedding.vec, chunks[p].embedding.vec) = One}
ExactMatchCase ==
    /\ Done
    /\ query_embedding.kind = "list"
    /\ NonZero(query_embedding.vec)
    /\ top_k >= 1
    /\ ExactMatches # {}

----------------------------------------------------------------------------
(* Properties of the hybrid ranker (SpecHybrid) *)

RMax(S) == CHOOSE v \in S : \A w \in S : RLeq(w, v)
\* a score divided by the maximum of its score set when that is positive
Rescaled(raw, S) == IF RLess(Zero, RMax(S)) THEN RDiv(raw, RMax(S)) ELSE raw

\* the keyword score of chunk c of the input, computed from its own content
\* and rescaled by the maximum over the input
OwnKeywordScore(c) ==
    Rescaled(OverlapRatio(query, c),
             {OverlapRatio(query, chunks[p]) : p \in 1..Len(chunks)})

\* the semantic score of chunk c of the input, computed from its own
\* embedding and rescaled by the maximum over the input; 0 for a chunk
\* without a usable embedding
OwnSemanticScore(c) ==
    IF ~Usable(c) THEN Zero
    ELSE Rescaled(CosineSimilarity(query_embedding.vec, c.embedding.vec),
                  {CosineSimilarity(query_embedding.vec, chunks[p].embedding.vec) :
                      p \in {r \in 1..Len(chunks) : Usable(chunks[r])}})

TotalWeight == RAdd(weights.semantic_weight, weights.keyword_weight)
NonNegativeWeights ==
    /\ RLeq(Zero, weights.semantic_weight)
    /\ RLeq(Zero, weights.keyword_weight)
NoNegativeCosine ==
    \A p \in 1..Len(chunks) :
        (Truthy(query_embedding) /\ Usable(chunks[p]))
            => RLeq(Zero, CosineSimilarity(query_embedding.vec,
                                           chunks[p].embedding.vec))
\* distinct chunks of the input have distinct join keys
KeysDistinct ==
    \A p, r \in 1..Len(chunks) :
        KeyOf(chunks[p]) = KeyOf(chunks[r]) => chunks[p] = chunks[r]

\* the input is a set of chunks: no chunk occurs twice
NoRepeats == \A p, r \in 1..Len(chunks) : chunks[p] = chunks[r] => p = r

ScoresInUnit ==
    \A i \in 1..Len(results) :
        /\ InUnit(results[i].score)
        /\ InUnit(results[i].keyword_score)
        /\ results[i].semantic_score # NoneScore
              => InUnit(results[i].semantic_score)

\* C13: for non-negative weights with positive sum every entry returned by
\* the hybrid ranker has its combined score, its keyword_score and (when
\* present) its semantic_score in [0,1].
C13_HybridScoresInUnit ==
    (Done /\ NonNegativeWeights /\ RLess(Zero, TotalWeight)) => ScoresInUnit

\* What holds of the code instead: the same when no chunk's cosine
\* similarity to the query embedding is negative.
HybridScoresInUnitWithoutNegativeCosine ==
    (Done /\ NonNegativeWeights /\ RLess(Zero, TotalWeight) /\ NoNegativeCosine)
        => ScoresInUnit

KeywordResult == retrieve_chunks_simple(query, chunks, top_k)

\* C14: called without a query embedding on a set of chunks with distinct
\* join keys and with top_k >= 0, the hybrid ranker returns the chunks that
\* the keyword retriever returns for the same query, chunk set and top_k, in
\* the same order, whatever the weights.
C14_HybridWithoutEmbeddingIsKeywordOrder ==
    (Done /\ ~Truthy(query_embedding) /\ NoRepeats /\ KeysDistinct /\ top_k >= 0) =>
        ResultChunks = [i \in 1..Len(KeywordResult) |-> ChunkOf(KeywordResult[i])]

\* What holds of the code instead: with distinct join keys and a positive
\* keyword weight (after normalisation) the result has as many entries as
\* the keyword retriever's and the same keyword scores position by position;
\* chunks of equal score may come in another order.
HybridWithoutEmbeddingSameScoresByRank ==
    (/\ Done
     /\ ~Truthy(query_embedding)
     /\ NoRepeats
     /\ KeysDistinct
     /\ RLess(Zero, TotalWeight)
     /\ RLess(Zero, weights.keyword_weight)) =>
        /\ Len(results) = Len(KeywordResult)
        /\ \A i \in 1..Len(results) :
              OverlapRatio(query, ChunkOf(results[i])) = KeywordResult[i].score

\* the weights the contract uses: normalised to sum 1, both 0 for a sum of 0
ContractWeights ==
    IF TotalWeight = Zero
    THEN [semantic_weight |-> Zero, keyword_weight |-> Zero]
    ELSE [semantic_weight |-> RDiv(weights.semantic_weight, TotalWeight),
          keyword_weight |-> RDiv(weights.keyword_weight, TotalWeight)]

CombinedWithContractWeights ==
    /\ \A i \in 1..Len(results) :
          results[i].score =
              RAdd(RMul(ContractWeights.semantic_weight,
                        IF results[i].semantic_score = NoneScore THEN Zero
                        ELSE results[i].semantic_score),
                   RMul(ContractWeights.keyword_weight, results[i].keyword_score))
    /\ TotalWeight = Zero => \A i \in 1..Len(results) : results[i].score = Zero

\* C15: the hybrid ranker combines the two scores with the weights
\* normalised to sum 1; when the weights sum to 0 both are treated as 0 and
\* every returned chunk has combined score 0.
C15_WeightsNormalizedOrZero == Done => CombinedWithContractWeights

\* What holds of the code instead: the same for weights none of which is
\* negative.
WeightsNormalizedWhenNonNegative ==
    (Done /\ NonNegativeWeights) => CombinedWithContractWeights

OwnScores ==
    \A i \in 1..Len(results) :
        /\ results[i].keyword_score = OwnKeywordScore(ChunkOf(results[i]))
        /\ results[i].semantic_score # NoneScore
              => results[i].semantic_score = OwnSemanticScore(ChunkOf(results[i]))

\* C16: every entry returned by the hybrid ranker carries the keyword_score
\* and the semantic_score computed from that chunk's own content and
\* embedding, also when chunk ids repeat across documents or are missing.
C16_ScoresAreTheChunksOwn == Done => OwnScores

\* What holds of the code instead: the same when distinct chunks of the
\* input have distinct join keys.
ScoresAreTheChunksOwnForDistinctKeys == (Done /\ KeysDistinct) => OwnScores

Repeated == Done /\ other.pc = "done"

\* C17: the same call made twice with the same query, query embedding,
\* chunks, top_k and weights returns the same entries with the same scores in
\* the same order, chunks of equal score included.
C17_RepeatedCallSameOrderedOutput == Repeated => other.results = results

\* What holds of the code instead: the two calls return the same entries
\* with the same scores; their order is the same when both calls run under
\* the same string-hash seed, and entries of equal score may change places
\* otherwise.
RepeatedCallSameEntries ==
    Repeated =>
        /\ Len(other.results) = Len(results)
        /\ \A i \in 1..Len(results) : other.results[i].score = results[i].score
        /\ top_k >= Len(chunks) =>
              {results[i] : i \in 1..Len(results)}
                  = {other.results[i] : i \in 1..Len(results)}
        /\ other.hashseed = hashseed => other.results = results

SortedByScore ==
    \A i \in 1..Len(results) : \A j \in 1..Len(results) :
        i < j => RLeq(results[j].score, results[i].score)

\* the two score sets of lines 219-243: per identifier, divided by the
\* maximum of the set when that is positive
KeywordScoreSet ==
    LET d == ScoreDict(retrieve_chunks_simple(query, chunks, Len(chunks)))
    IN  [key \in DOMAIN d |-> Rescaled(d[key], {d[j] : j \in DOMAIN d})]
SemanticScoreSet ==
    LET d == ScoreDict(retrieve_chunks_semantic(query_embedding, chunks, Len(chunks)))
    IN  [key \in DOMAIN d |-> Rescaled(d[key], {d[j] : j \in DOMAIN d})]
ScoreOrZero(set, key) == IF key \in DOMAIN set THEN set[key] ELSE Zero

\* a weight after the normalisation; weights whose sum is not positive are
\* used as passed
Normalized(weight) ==
    IF RLess(Zero, TotalWeight) THEN RDiv(weight, TotalWeight) ELSE weight

\* C27: for every entry returned by retrieve_chunks_hybrid with a query
\* embedding, score = w_s * semantic_score + w_k * keyword_score, w_s and
\* w_k the normalized weights, keyword_score and semantic_score the attached
\* scores: the entry's score in each score set (each signal divided by its
\* maximum over the chunk set when that is positive), 0 when the entry's
\* identifier is absent from the set; the entries are sorted by
\* non-increasing score.
C27_ScoreIsWeightedSumOfAttachedScores ==
    (Done /\ Truthy(query_embedding)) =>
        /\ \A i \in 1..Len(results) :
              /\ results[i].semantic_score =
                    ScoreOrZero(SemanticScoreSet, KeyOf(results[i]))
              /\ results[i].keyword_score =
                    ScoreOrZero(KeywordScoreSet, KeyOf(results[i]))
              /\ results[i].score =
                    RAdd(RMul(Normalized(weights.semantic_weight),
                              results[i].semantic_score),
                         RMul(Normalized(weights.keyword_weight),
                              results[i].keyword_score))
        /\ SortedByScore

\* weights that do not sum to 1, two entries of different scores, the second
\* a chunk that is absent from the semantic score set
C27_Witness ==
    /\ Done /\ Truthy(query_embedding)
    /\ TotalWeight # One /\ RLess(Zero, TotalWeight)
    /\ Len(results) = 2
    /\ RLess(results[2].score, results[1].score)
    /\ RLess(Zero, results[1].semantic_score) /\ RLess(Zero, results[1].keyword_score)
    /\ ~Usable(ChunkOf(results[2])) /\ results[2].semantic_score = Zero

\* the attached scores are moreover the chunk's own when distinct chunks
\* have distinct join keys (C16)
AttachedScoresAreOwnForDistinctKeys ==
    (Done /\ Truthy(query_embedding) /\ KeysDistinct) => OwnScores

\* min(top_k, |C|) entries, each an input chunk, no input chunk twice
OnePerChunkUpToTopK ==
    /\ Len(results) = Min(top_k, Len(chunks))
    /\ \A i \in 1..Len(results) :
          \E p \in 1..Len(chunks) : ChunkOf(results[i]) = chunks[p]
    /\ \A i, j \in 1..Len(results) :
          ChunkOf(results[i]) = ChunkOf(results[j]) => i = j

\* C28: for 0 <= top_k retrieve_chunks_hybrid returns exactly
\* min(top_k, |C|) entries, one per input chunk and no input chunk twice:
\* every chunk of the input set, with or without embedding, with or without
\* chunk_id, is in the full ranking.
C28_HybridReturnsMinTopKEntries ==
    (Done /\ top_k >= 0 /\ NoRepeats) => OnePerChunkUpToTopK

\* What holds of the code instead: the same when distinct chunks have
\* distinct join keys.
HybridReturnsMinTopKEntriesForDistinctKeys ==
    (Done /\ top_k >= 0 /\ NoRepeats /\ KeysDistinct) => OnePerChunkUpToTopK

----------------------------------------------------------------------------
(* Properties of the orchestrator (Spec) *)

StoreRead == TOWER_RAG_AVAILABLE /\ store_fault = "none"
Scoped == Scope(table, document_id)
NoEmbedding == provider \in {"unavailable", "no key", "raises", "empty"}

\* C1: whenever the chunk backend is unavailable or the store raises, on
\* construction or on read_all, the call returns the empty list and raises
\* nothing, whatever the method, query, document_id and top_k.
C1_StoreFailureGivesEmptyList ==
    (Done /\ (~TOWER_RAG_AVAILABLE \/ store_fault # "none")) =>
        /\ results = <<>>
        /\ ~raised

C1_Witness ==
    /\ Done
    /\ TOWER_RAG_AVAILABLE
    /\ store_fault = "read_all"
    /\ SearchMethod(method_arg) = "keyword"
    /\ top_k >= 1
    /\ Scoped # <<>>
    /\ results = <<>>
    /\ ~raised

\* what C2 says but for the number of items: with a document_id every
\* returned chunk is of that document and the candidates are exactly the rows
\* of that document, keyword mode returning `count(n)` items, n the number of
\* rows of the document; without a document_id the candidates are all rows.
ScopedGives(count(_)) ==
    (Done /\ StoreRead) =>
        LET Mine(c) == c.document_id = document_id
            mine == SelectSeq(table, Mine)
        IN  /\ document_id # "" =>
                  /\ chunks = mine
                  /\ \A i \in 1..Len(results) : results[i].document_id = document_id
                  /\ SearchMethod(method_arg) = "keyword"
                        => Len(results) = count(Len(mine))
            /\ document_id = "" =>
                  /\ chunks = table
                  /\ SearchMethod(method_arg) = "keyword"
                        => Len(results) = count(Len(table))

\* C2: scoping happens before scoring: every returned chunk is of the
\* requested document and keyword mode returns min(top_k, number of chunks
\* of the document) items (none for a negative top_k); without a document_id
\* all rows are candidates.
C2_ScopedThenMinTopK == ScopedGives(FirstTopK)

\* What holds of the code instead: the same, the number of items being that
\* of the slice [:top_k].
ScopedBeforeScoring == ScopedGives(Sliced)

\* C3: in semantic mode, when the provider is not installed, has no key,
\* raises or returns no vector, the call returns exactly the keyword
\* retriever's result on the document-scoped chunks and raises nothing.
C3_SemanticFallsBackToKeyword ==
    (Done /\ StoreRead /\ SearchMethod(method_arg) = "semantic" /\ NoEmbedding) =>
        /\ ~raised
        /\ results = retrieve_chunks_simple(query, Scoped, top_k)

C3_Witness ==
    /\ Done
    /\ StoreRead
    /\ method_arg = "semantic"
    /\ provider = "raises"
    /\ document_id = "d1"
    /\ Len(table) > Len(chunks)
    /\ Len(results) = 2
    /\ results[1].score = One
    /\ "similarity" \notin DOMAIN results[1]

\* C4: in hybrid mode the call returns the keyword retriever's result on the
\* scoped chunks when there is no query embedding, and otherwise the hybrid
\* ranker's result on the scoped chunks with the weights of the
\* configuration, 0.7 (semantic) and 0.3 (keyword) when it gives none.
C4_HybridUsesConfiguredWeights ==
    (Done /\ StoreRead /\ SearchMethod(method_arg) = "hybrid") =>
        IF provider = "ok"
        THEN results = retrieve_chunks_hybrid(query, query_embedding, Scoped, top_k,
                IF config.rag.semantic_weight = <<>> THEN <<7, 10>>
                ELSE config.rag.semantic_weight,
                IF config.rag.keyword_weight = <<>> THEN <<3, 10>>
                ELSE config.rag.keyword_weight,
                hashseed)
        ELSE /\ NoEmbedding
             /\ results = retrieve_chunks_simple(query, Scoped, top_k)

C4_Witness ==
    /\ Done
    /\ StoreRead
    /\ SearchMethod(method_arg) = "hybrid"
    /\ provider = "ok"
    /\ config.rag = NoRagConfig
    /\ Len(results) = 2
    /\ results[1].score = Rat(17, 20)
    /\ results[1].semantic_score = One
    /\ results[1].keyword_score = Rat(1, 2)
    /\ results[2].score = Rat(18, 25)

\* C5: a call whose method is none of keyword, semantic, hybrid fails with
\* an error and returns no results; only a method that was not passed
\* defaults to hybrid.
C5_UnknownMethodFailsFast ==
    (Done /\ StoreRead /\ method_arg \notin Known \cup {NotPassed}) =>
        /\ raised
        /\ results = <<>>

\* C18: no retrieval changes the chunk store: across every step of a call
\* the tables of the catalog and the rows of the chunks table stay as they
\* were, the store seeing only reads.
C18_RetrievalOnlyReadsTheStore ==
    [][catalog' = catalog /\ table' = table]_vars

\* What holds of the code instead: no step of a call changes the rows of
\* the chunks table, and a call changes the catalog only by creating the
\* chunks table when it does not exist.
RetrievalNeverWritesRows ==
    [][/\ table' = table
       /\ catalog \subseteq catalog'
       /\ catalog' \subseteq catalog \cup {"chunks"}]_vars

\* and the retrievers leave the chunk list they are given as it was
\* (SpecSimple, SpecSemantic, SpecHybrid)
InputChunksNeverMutated == [][chunks' = chunks]_vars

\* C19: in semantic and hybrid mode the query-embedding request is issued
\* without waiting for the chunk fetch: while read_all is in flight the
\* embedding provider has been called already.
C19_EmbeddingRequestedWhileFetching ==
    (pc = "reading store" /\ SearchMethod(method_arg) # "keyword")
        => embed_calls >= 1

\* What holds of the code instead: the provider is called only after
\* read_all has returned without error, never while it is in flight.
EmbeddingRequestedOnlyAfterFetch ==
    /\ pc \in {"idle", "reading store"} => embed_calls = 0
    /\ embed_calls >= 1 =>
          /\ pc \in {"awaiting embedding", "done"}
          /\ StoreRead
          /\ chunks = Scoped

\* C25: in keyword mode the orchestrator never calls the embedding provider;
\* in semantic or hybrid mode it calls it exactly once per request, and only
\* after the chunk store was read successfully.
C25_EmbeddingCalledOnceUnlessKeyword ==
    /\ SearchMethod(method_arg) = "keyword" => embed_calls = 0
    /\ (pc = "done" /\ SearchMethod(method_arg) # "keyword")
          => embed_calls = (IF StoreRead THEN 1 ELSE 0)
    /\ embed_calls <= 1
    /\ embed_calls = 1 => (StoreRead /\ pc \in {"awaiting embedding", "done"})

\* a semantic or hybrid request answered with chunks after one call of the
\* provider, which gave an embedding
C25_Witness ==
    /\ pc = "done" /\ StoreRead
    /\ SearchMethod(method_arg) # "keyword"
    /\ provider = "ok" /\ embed_calls = 1
    /\ results # <<>>

----------------------------------------------------------------------------
(* Properties of two calls served at the same time (SpecConcurrent) *)

\* what call f returns when it runs alone against the same store, given the
\* same answers of the store and of the provider
Alone(f) ==
    IF ~TOWER_RAG_AVAILABLE \/ f.store_fault # "none" THEN <<>>
    ELSE Rank(SearchMethod(f.method_arg), f.query, f.query_embedding,
              Scope(table, f.document_id), f.top_k, config, hashseed)

\* C20: for every interleaving of two calls over an unchanged store each
\* call returns what it returns when run alone, and each call works on its
\* own candidates: no state of one call is seen by the other.
C20_ConcurrentCallsIndependent ==
    \A f \in {Me, other} :
        /\ f.pc = "done" => (f.results = Alone(f) /\ ~f.raised)
        /\ f.pc = "awaiting embedding" =>
              f.chunks = Scope(table, f.document_id)

C20_Witness ==
    /\ Done
    /\ provider = "ok"
    /\ results # <<>>
    /\ other.pc = "awaiting embedding"
    /\ other.document_id # document_id
    /\ other.chunks # <<>>
    /\ other.chunks # chunks
    /\ other.embed_calls = 1

----------------------------------------------------------------------------
(* Properties of _cosine_similarity (SpecCosine) *)

FlatNumbers(a) == a.kind = "list" /\ a.nan = {}
Empty(a) == a.kind = "list" /\ a.vec = <<>>
ZeroNorm(a) == FlatNumbers(a) /\ a.vec # <<>> /\ DotN(a.vec, a.vec, Len(a.vec)) = 0
Orthogonal(a, b) ==
    /\ FlatNumbers(a) /\ FlatNumbers(b)
    /\ Len(a.vec) = Len(b.vec) /\ a.vec # <<>>
    /\ DotN(a.vec, b.vec, Len(a.vec)) = 0

\* C21: _cosine_similarity returns exactly 0.0 whenever either vector is
\* empty or either vector has zero norm, whatever the other argument is, and
\* 0.0 for orthogonal vectors.
C21_CosineZeroForEmptyZeroNormOrthogonal ==
    (/\ Done
     /\ \/ Empty(vectors.vec1) \/ Empty(vectors.vec2)
        \/ ZeroNorm(vectors.vec1) \/ ZeroNorm(vectors.vec2)
        \/ Orthogonal(vectors.vec1, vectors.vec2))
    => (results = Zero /\ ~raised)

\* a zero vector against a vector of numbers that is not zero: without the
\* guard the quotient would be 0/0
C21_Witness ==
    /\ Done
    /\ ZeroNorm(vectors.vec1)
    /\ FlatNumbers(vectors.vec2) /\ vectors.vec2.vec # <<>>
    /\ ~ZeroNorm(vectors.vec2)
    /\ results = Zero

\* C22: _cosine_similarity never propagates an error: for any pair of
\* inputs, malformed ones included, it returns a number, and it returns 0.0
\* whenever the computation fails.
C22_CosineAlwaysReturnsANumber ==
    Done => /\ ~raised
            /\ results # NaN
            /\ cosine_try(vectors.vec1, vectors.vec2).raised => results = Zero

\* what holds of C22: nothing is raised to the caller, every exception inside
\* gives 0.0, and arguments that are lists of numbers without a nan give a
\* number in [-1, 1]
CosineNeverRaises ==
    Done => /\ ~raised
            /\ cosine_try(vectors.vec1, vectors.vec2).raised => results = Zero
            /\ (FlatNumbers(vectors.vec1) /\ FlatNumbers(vectors.vec2))
                  => (results # NaN /\ RLeq(<<-1, 1>>, results) /\ RLeq(results, One))

DifferentLengths ==
    /\ FlatNumbers(vectors.vec1) /\ FlatNumbers(vectors.vec2)
    /\ vectors.vec1.vec # <<>> /\ vectors.vec2.vec # <<>>
    /\ Len(vectors.vec1.vec) # Len(vectors.vec2.vec)

Truncated(v, n) == SubSeq(v, 1, n)

\* C23: for vectors of different lengths _cosine_similarity equals the
\* cosine similarity of both vectors truncated to the shorter length, and
\* the length mismatch is never reported as an error.
C23_DifferentLengthsAreTruncated ==
    (Done /\ DifferentLengths)
    => LET shorter == Min(Len(vectors.vec1.vec), Len(vectors.vec2.vec))
       IN  /\ results = Cosine(Truncated(vectors.vec1.vec, shorter),
                               Truncated(vectors.vec2.vec, shorter))
           /\ ~raised
           /\ ~cosine_try(vectors.vec1, vectors.vec2).raised

\* (5, 0, 12) against (3, 4): the similarity is that of (5, 0) and (3, 4)
C23_Witness ==
    /\ Done
    /\ DifferentLengths
    /\ Len(vectors.vec1.vec) > Len(vectors.vec2.vec)
    /\ vectors.vec1.vec[Len(vectors.vec1.vec)] # 0
    /\ results = <<3, 5>>

----------------------------------------------------------------------------
(* Properties of the weights of retrieve_chunks_hybrid (SpecScaled) *)

Scaled == Done /\ other.pc = "done"
PositiveSum == RLess(Zero, RAdd(weights.semantic_weight, weights.keyword_weight))
\* the weights and their multiples are floats
Representable(w) == Fl(w) = w
ExactlyScaled ==
    /\ Representable(weights.semantic_weight)
    /\ Representable(weights.keyword_weight)
    /\ Representable(RMul(other.factor, weights.semantic_weight))
    /\ Representable(RMul(other.factor, weights.keyword_weight))

RAbsDiff(a, b) == IF RLess(a, b) THEN RAdd(b, <<-a[1], a[2]>>) ELSE RAdd(a, <<-b[1], b[2]>>)
Close(a, b) == RLeq(RAbsDiff(a, b), <<2, Pow2(Precision)>>)

\* the whole ranking of the first call
FullRanking ==
    HybridUnder("float", query, query_embedding, chunks, Len(chunks),
                weights.semantic_weight, weights.keyword_weight, hashseed)
SameButScore(a, b) == [a EXCEPT !.score = Zero] = [b EXCEPT !.score = Zero]
NearTie(i) ==
    \E j \in 1..Len(FullRanking) :
        j # i /\ Close(FullRanking[i].score, FullRanking[j].score)

----------------------------------------------------------------------------
(* Properties of rag_service.verify_claims (SpecVerify) *)

Returned == other.pc = "returned"
\* the Tower path was taken and failed, or could not be taken
TowerFailed ==
    \/ ~TOWER_RAG_AVAILABLE
    \/ store_fault # "none"
    \/ (document_id # "" /\ other.running_loop)
NoRetrieval == pc = "not called" /\ embed_calls = 0 /\ store_fault = "none"

\* C29: with a non-empty query, if retrieval through Tower fails (store error
\* or Tower unavailable) and the payload supplies chunks, the result is the
\* simple keyword retrieval over the payload's chunks (source "simple");
\* source "tower" is reported only when chunks were obtained through the
\* Tower path without failure; with an empty query the result is an error
\* with no chunks and no retrieval is performed.
C29_TowerFailureFallsBackToPayloadChunks ==
    Returned =>
        /\ (query # <<>> /\ TowerFailed /\ other.chunks # <<>>) =>
              /\ other.returned.source = "simple"
              /\ other.returned.chunks =
                    retrieve_chunks_simple(query, other.chunks, top_k)
        /\ other.returned.source = "tower" =>
              (TOWER_RAG_AVAILABLE /\ store_fault = "none" /\ pc = "done")
        /\ query = <<>> =>
              /\ other.returned.error = "Query is required"
              /\ other.returned.chunks = <<>>
              /\ NoRetrieval

\* What holds of the code instead: the payload's chunks are used when no
\* document_id is given, when Tower is not available and when asyncio.run
\* itself raises; a store error gives source "tower" with no chunks.
FallsBackUnlessTowerPathReturned ==
    Returned =>
        /\ (query # <<>> /\ other.chunks # <<>>
              /\ (document_id = "" \/ ~TOWER_RAG_AVAILABLE \/ other.running_loop)) =>
              /\ other.returned.source = "simple"
              /\ other.returned.chunks =
                    retrieve_chunks_simple(query, other.chunks, top_k)
        /\ (query # <<>> /\ document_id # "" /\ TOWER_RAG_AVAILABLE
              /\ ~other.running_loop) =>
              /\ other.returned.source = "tower"
              /\ other.returned.chunks = results
              /\ store_fault # "none" => other.returned.chunks = <<>>
        /\ query = <<>> =>
              /\ other.returned.error = "Query is required"
              /\ other.returned.chunks = <<>>
              /\ NoRetrieval

----------------------------------------------------------------------------
(* Properties of agents.chunk_retriever.retrieve_chunks (SpecRetrieve) *)

IsList(v) ==
    /\ v # Coroutine
    /\ v # NoLocal
    /\ \A i \in DOMAIN v : "score" \in DOMAIN v[i]
\* the document has a chunk that shares a word with the claim, so every
\* search method of the orchestrator finds at least one chunk
RetrievalFindsChunks ==
    /\ TOWER_RAG_AVAILABLE
    /\ "chunks" \in catalog
    /\ top_k >= 1
    /\ \E i \in DOMAIN Scope(table, document_id) :
          RLess(Zero, KeywordScore(Tokenize(query), Scope(table, document_id)[i]))
\* the orchestrator fails, or has nothing to return
RetrievalFailsOrFindsNothing ==
    \/ ~TOWER_RAG_AVAILABLE
    \/ Scope(table, document_id) = <<>>
    \/ top_k = 0

\* C30: retrieve_chunks always returns a list of scored chunks: the
\* orchestrator's non-empty result list when a document_id is given and
\* retrieval finds chunks, and an empty list when no document_id is given,
\* when retrieval finds nothing, or when retrieval fails; it never raises
\* and never returns a non-list value.
C30_ReturnsOrchestratorResultOrEmptyList ==
    Returned =>
        /\ ~other.raised
        /\ IsList(other.returned)
        /\ (document_id # "" /\ RetrievalFindsChunks) => other.returned # <<>>
        /\ (document_id = "" \/ RetrievalFailsOrFindsNothing) => other.returned = <<>>

\* What holds of the code instead: the orchestrator is never started and the
\* list returned is always empty.
RetrieveChunksAlwaysReturnsEmptyList ==
    /\ pc = "not called"
    /\ Returned => (~other.raised /\ other.returned = <<>>)

----------------------------------------------------------------------------
(* Properties of the /verify workflow (SpecWorkflow) *)

Responded == other.pc = "responded"
NonEmptyText(t) == t # <<>>
ClaimsWithText == SelectSeq(other.claims, NonEmptyText)
\* the request reaches step 4 with a claim that has text
ReachesRetrieval ==
    /\ other.transcript # <<>>
    /\ other.documents # <<>>
    /\ ClaimsWithText # <<>>

\* C26: in the /verify workflow, for every extracted claim with non-empty
\* text, retrieval never makes the workflow fail: when retrieval yields no
\* chunks the claim gets a result entry with verdict NOT_FOUND and an empty
\* chunk list, otherwise it gets a result entry holding the retrieved chunk
\* list and the verification over their content.
C26_RetrievalNeverFailsTheWorkflow ==
    (Responded /\ ReachesRetrieval) =>
        /\ other.response.status = "200"
        /\ Len(other.response.results) = Len(ClaimsWithText)
        /\ \A j \in DOMAIN other.response.results :
              LET entry == other.response.results[j]
              IN  /\ entry.claim = ClaimsWithText[j]
                  /\ IsList(entry.chunks)
                  /\ entry.chunks = <<>> => entry.verification = NotFound
                  /\ entry.chunks # <<>> =>
                        entry.verification =
                            Verified([i \in DOMAIN entry.chunks |->
                                         entry.chunks[i].content])

\* What holds of the code instead: a request that reaches retrieval for a
\* claim with text is answered with status 500 and no results, and the
\* orchestrator is never started.
RetrievalAlwaysFailsTheWorkflow ==
    /\ pc = "not called"
    /\ Responded =>
          /\ other.response.results = <<>>
          /\ other.response.status = "500" <=> ReachesRetrieval
          /\ other.response.status = "400" <=> other.transcript = <<>>

====
